---- MODULE Spec2Model ----
(***************************************************************************)
(* Model of the wind-atlas builder (src/data/wind_atlas.py): the driver    *)
(* reads the observation CSV, build_atlas groups the observations by       *)
(* (station, period), computes one summary record per group, joins the     *)
(* station metadata and writes the atlas table.  The viewer's column list  *)
(* (src/service/app.py) is modelled beside it.                             *)
(*                                                                         *)
(* Units: wind directions are integers in tenths of a degree (3599 is      *)
(* 359.9 degrees, a bin is 225 wide); wind speeds are integers.  A float   *)
(* cell is a record [nan, v]; a statistic is a rational [nan, num, den].   *)
(***************************************************************************)
EXTENDS Integers, Sequences, FiniteSets, TLC

VARIABLES
    csv,        \* rows of the observation file given to --input
    meta_df,    \* the station metadata table, or None
    freq,       \* "monthly" | "annual"
    plot_rose,  \* the --plot_rose flag
    windrose,   \* whether the optional windrose package can be imported
    df,         \* the observation frame build_atlas works on
    dtype,      \* dtype of df["datetime"] after read_csv
    pc,         \* position of the run
    error,      \* the exception that ended the run, or "none"
    pending,    \* group keys the loop of build_atlas has still to visit
    summaries,  \* the list `summaries`
    atlas_df,   \* the frame built from summaries and joined with meta_df
    out_dir,    \* whether the output directory exists
    pngs,       \* rose_<station>_<period>.png files on disk
    atlas_csv   \* wind_atlas_<freq>.csv on disk: [exists, rows]

vars == <<csv, meta_df, freq, plot_rose, windrose, df, dtype, pc, error,
          pending, summaries, atlas_df, out_dir, pngs, atlas_csv>>

----------------------------------------------------------------------------
(* Bounds of the model *)

MaxObs == 2
MaxMeta == 2
MaxPad == 2
MaxDir == 3700

(* Program constants *)

MIN_SAMPLES == 20
BINS == 16
FULL_CIRCLE == 3600
RHO_MILLI == 1225

----------------------------------------------------------------------------
(* Cell values *)

NaN == [nan |-> TRUE, v |-> 0]
F(x) == [nan |-> FALSE, v |-> x]

NaNStat == [nan |-> TRUE, num |-> 0, den |-> 1]
Stat(n, d) == [nan |-> FALSE, num |-> n, den |-> d]

Ts(y, m) == [kind |-> "ts", y |-> y, m |-> m]
NaT == [kind |-> "NaT", y |-> 0, m |-> 0]
Malformed == [kind |-> "text", y |-> 0, m |-> 0]

Obs(s, t, w, d) == [station |-> s, datetime |-> t, wspd |-> w, wdir |-> d]

RECURSIVE SeqsUpTo(_, _)
SeqsUpTo(S, n) ==
    IF n = 0 THEN {<<>>}
    ELSE LET shorter == SeqsUpTo(S, n - 1)
         IN shorter \cup {Append(q, x) : q \in {r \in shorter : Len(r) = n - 1}, x \in S}

RECURSIVE Repeat(_, _)
Repeat(x, n) == IF n = 0 THEN <<>> ELSE Append(Repeat(x, n - 1), x)

RECURSIVE SumSeq(_)
SumSeq(q) == IF q = <<>> THEN 0 ELSE Head(q) + SumSeq(Tail(q))

----------------------------------------------------------------------------
(* pandas / numpy primitives used by build_atlas *)

\* df["datetime"].dt.to_period("M" | "Y"): NaT stays NaT.
ToPeriod(t, fq) ==
    IF t.kind = "ts"
    THEN [kind |-> "P", y |-> t.y, m |-> IF fq = "monthly" THEN t.m ELSE 0]
    ELSE [kind |-> "NaT", y |-> 0, m |-> 0]

\* str(period): "YYYY" or "YYYY-MM", as the sequence of its character codes.
Digit(d) == 48 + d
StrPeriod(p) ==
    LET year == <<Digit(p.y \div 1000), Digit((p.y \div 100) % 10),
                  Digit((p.y \div 10) % 10), Digit(p.y % 10)>>
    IN IF p.m = 0 THEN year
       ELSE year \o <<45, Digit(p.m \div 10), Digit(p.m % 10)>>

\* Order of the group keys (station, Period) as groupby(sort=True) sorts them.
KeyLeq(a, b) ==
    \/ a[1] < b[1]
    \/ /\ a[1] = b[1]
       /\ \/ a[2].y < b[2].y
          \/ a[2].y = b[2].y /\ a[2].m <= b[2].m

\* The keys of df.groupby(["station", "period"]): rows whose period is NaT
\* are dropped (dropna=True), the keys come out sorted.
GroupKeySet(frame) ==
    {<<frame[i].station, frame[i].period>> :
        i \in {j \in 1..Len(frame) : frame[j].period.kind = "P"}}

RECURSIVE SortKeys(_)
SortKeys(S) ==
    IF S = {} THEN <<>>
    ELSE LET least == CHOOSE k \in S : \A j \in S : KeyLeq(k, j)
         IN <<least>> \o SortKeys(S \ {least})

RECURSIVE FirstSeen(_)
FirstSeen(frame) ==
    IF frame = <<>> THEN <<>>
    ELSE LET front == FirstSeen(SubSeq(frame, 1, Len(frame) - 1))
             last == frame[Len(frame)]
             key == <<last.station, last.period>>
         IN IF last.period.kind # "P" \/ \E i \in 1..Len(front) : front[i] = key
            THEN front ELSE Append(front, key)

GroupKeysUnsorted(frame) == FirstSeen(frame)

GroupKeys(frame) == SortKeys(GroupKeySet(frame))

\* The rows of one group, in frame order.
GroupRows(frame, key) ==
    SelectSeq(frame, LAMBDA r : r.period.kind = "P" /\ r.station = key[1] /\ r.period = key[2])

Column(g, col) == [i \in 1..Len(g) |-> g[i][col]]

NotNan(a) == SelectSeq(a, LAMBDA x : ~x.nan)

Vals(a) == [i \in 1..Len(a) |-> a[i].v]

RECURSIVE SortInts(_)
SortInts(a) ==
    IF a = <<>> THEN <<>>
    ELSE LET rest == SortInts(Tail(a))
             lower == SelectSeq(rest, LAMBDA x : x <= Head(a))
             upper == SelectSeq(rest, LAMBDA x : x > Head(a))
         IN lower \o <<Head(a)>> \o upper

\* np.nanmean: NaN (with a warning) when no value is left.
NanMean(a) ==
    LET used == Vals(NotNan(a))
    IN IF used = <<>> THEN NaNStat ELSE Stat(SumSeq(used), Len(used))

\* np.nanpercentile(a, q): linear interpolation between order statistics.
NanPercentile(a, q) ==
    LET used == SortInts(Vals(NotNan(a)))
        t == (Len(used) - 1) * q
        lo == (t \div 100) + 1
        hi == IF lo < Len(used) THEN lo + 1 ELSE lo
    IN IF used = <<>> THEN NaNStat
       ELSE Stat(100 * used[lo] + (t % 100) * (used[hi] - used[lo]), 100)

----------------------------------------------------------------------------
(* The statistics functions of wind_atlas.py *)

WeibullSample(speeds) == SelectSeq(speeds, LAMBDA x : ~x.nan /\ x.v > 0)

WeibullSampleWithZeros(speeds) == SelectSeq(speeds, LAMBDA x : ~x.nan)

\* fit_weibull: (nan, nan) below MIN_SAMPLES usable speeds, else the result
\* of weibull_min.fit, whose numeric value is not modelled ("mle").
fit_weibull_keeps_zeros(speeds) ==
    IF Len(WeibullSampleWithZeros(speeds)) < MIN_SAMPLES THEN <<"nan", "nan">> ELSE <<"mle", "mle">>

fit_weibull(speeds) ==
    IF Len(WeibullSample(speeds)) < MIN_SAMPLES THEN <<"nan", "nan">> ELSE <<"mle", "mle">>

\* mean_power_density: 0.5 * rho * mean(v^3) over the non-NaN speeds.
mean_power_density(speeds) ==
    LET used == Vals(NotNan(speeds))
        cubes == [i \in 1..Len(used) |-> used[i] * used[i] * used[i]]
    IN IF used = <<>> THEN NaNStat
       ELSE Stat(RHO_MILLI * SumSeq(cubes), 2000 * Len(used))

\* labels = np.arange(0, 360, 360 / bins), in tenths of a degree.
Labels == [i \in 0..(BINS - 1) |-> i * (FULL_CIRCLE \div BINS)]

\* int(labels[i]): truncation to whole degrees.
IntLabelCeil(i) == (Labels[i] + 9) \div 10

IntLabel(i) == Labels[i] \div 10

\* The column name f"dir_{k}".
DirCol(k) == <<"dir", k>>

\* What .astype(int) makes of a NaN is not defined by C: the builds in use
\* give the most negative integer (x86) or 0 (ARM).
NaNCastOutcomes == {0 - 2147483647, 0}

BinIndexNoWrap(d) == d \div (FULL_CIRCLE \div BINS)

\* np.floor((deg % 360) / (360 / bins)) for one finite direction.
BinIndex(d) == (d % FULL_CIRCLE) \div (FULL_CIRCLE \div BINS)

\* idx of direction_bins: the NaN entries are not filtered out.
BinIdx(deg, cast) ==
    [i \in 1..Len(deg) |-> IF deg[i].nan THEN cast ELSE BinIndex(deg[i].v)]

\* value_counts(normalize=True).get(i, 0.0)
CountsGet(idx, i) ==
    LET c == Cardinality({j \in 1..Len(idx) : idx[j] = i})
    IN IF c = 0 THEN Stat(0, 1) ELSE Stat(c, Len(idx))

\* direction_bins: {int(labels[i]): counts.get(i, 0.0) for i in range(bins)}
direction_bins(deg, cast) ==
    LET idx == BinIdx(deg, cast)
    IN [k \in {IntLabel(i) : i \in 0..(BINS - 1)} |->
          CountsGet(idx, CHOOSE i \in 0..(BINS - 1) : IntLabel(i) = k)]

\* The viewer's constants.
DIRECTION_BINS == <<0, 22, 45, 67, 90, 112, 135, 157, 180, 202, 225, 247, 270, 292, 315, 337>>
FREQ_COLS == [i \in 1..Len(DIRECTION_BINS) |-> DirCol(DIRECTION_BINS[i])]

----------------------------------------------------------------------------
(* Station metadata and the join *)

None == [present |-> FALSE, hasStation |-> FALSE, rows |-> <<>>]
MetaTable(stations) ==
    [present |-> TRUE, hasStation |-> TRUE,
     rows |-> [i \in 1..Len(stations) |-> [station |-> stations[i], latitude |-> 30 + i]]]
\* A metadata file whose key column is not called "station".
MetaNoStationColumn ==
    [present |-> TRUE, hasStation |-> FALSE, rows |-> <<[station |-> 1, latitude |-> 31]>>]

NotJoined == [joined |-> FALSE, null |-> TRUE, latitude |-> 0]
NullMeta == [joined |-> TRUE, null |-> TRUE, latitude |-> 0]
Joined(m) == [joined |-> TRUE, null |-> FALSE, latitude |-> m.latitude]

\* pd.DataFrame(summaries): one row per record, in list order.
DataFrame(recs) == [i \in 1..Len(recs) |-> [rec |-> recs[i], meta |-> NotJoined]]

RECURSIVE InnerJoin(_, _)
InnerJoin(left, right) ==
    IF left = <<>> THEN <<>>
    ELSE LET row == Head(left)
             hits == SelectSeq(right, LAMBDA m : m.station = row.rec.station)
         IN [i \in 1..Len(hits) |-> [rec |-> row.rec, meta |-> Joined(hits[i])]]
            \o InnerJoin(Tail(left), right)

\* atlas_df.merge(meta_df, on="station", how="left"): left order kept, one
\* output row per matching metadata row, a null-filled row when none matches.
RECURSIVE LeftJoin(_, _)
LeftJoin(left, right) ==
    IF left = <<>> THEN <<>>
    ELSE LET row == Head(left)
             hits == SelectSeq(right, LAMBDA m : m.station = row.rec.station)
             out == IF hits = <<>>
                    THEN <<[rec |-> row.rec, meta |-> NullMeta]>>
                    ELSE [i \in 1..Len(hits) |-> [rec |-> row.rec, meta |-> Joined(hits[i])]]
         IN out \o LeftJoin(Tail(left), right)

\* merge raises KeyError('station') when either side lacks the key column;
\* a frame built from an empty list has no columns at all.
MergeKeyError(left, meta) == left = <<>> \/ ~meta.hasStation

----------------------------------------------------------------------------
(* The run: __main__ and build_atlas *)

\* dtype of the datetime column after read_csv(parse_dates=["datetime"]):
\* one unparseable cell leaves the whole column as text; a file with a
\* header and no rows gives object or datetime64 depending on the parser.
DtypeOutcomes(rows) ==
    IF \E i \in 1..Len(rows) : rows[i].datetime.kind = "text" THEN {"object"}
    ELSE IF rows = <<>> THEN {"object", "datetime64"}
    ELSE {"datetime64"}

ReadCsv ==
    /\ pc = "main"
    /\ \E dt \in DtypeOutcomes(csv) : dtype' = dt
    /\ df' = csv
    /\ pc' = "mkdir"
    /\ UNCHANGED <<csv, meta_df, freq, plot_rose, windrose, error, pending,
                   summaries, atlas_df, out_dir, pngs, atlas_csv>>

\* build_atlas called with a frame the caller built: its datetime column is
\* datetime-like (cells are timestamps or NaT).
BuildAtlasCall ==
    /\ pc = "main"
    /\ \A i \in 1..Len(csv) : csv[i].datetime.kind # "text"
    /\ dtype' = "datetime64"
    /\ df' = csv
    /\ pc' = "mkdir"
    /\ UNCHANGED <<csv, meta_df, freq, plot_rose, windrose, error, pending,
                   summaries, atlas_df, out_dir, pngs, atlas_csv>>

Mkdir ==
    /\ pc = "mkdir"
    /\ out_dir' = TRUE
    /\ pc' = "period"
    /\ UNCHANGED <<csv, meta_df, freq, plot_rose, windrose, df, dtype, error,
                   pending, summaries, atlas_df, pngs, atlas_csv>>

WithPeriod(r, fq) ==
    [station |-> r.station, datetime |-> r.datetime, wspd |-> r.wspd,
     wdir |-> r.wdir, period |-> ToPeriod(r.datetime, fq)]

AssignPeriod ==
    /\ pc = "period"
    /\ dtype = "datetime64"
    /\ df' = [i \in 1..Len(df) |-> WithPeriod(df[i], freq)]
    /\ summaries' = <<>>
    /\ pc' = "groupby"
    /\ UNCHANGED <<csv, meta_df, freq, plot_rose, windrose, dtype, error,
                   pending, atlas_df, out_dir, pngs, atlas_csv>>

\* .dt on a column that is not datetime-like raises AttributeError.
AssignPeriodRaise ==
    /\ pc = "period"
    /\ dtype # "datetime64"
    /\ error' = "AttributeError"
    /\ pc' = "failed"
    /\ UNCHANGED <<csv, meta_df, freq, plot_rose, windrose, df, dtype,
                   pending, summaries, atlas_df, out_dir, pngs, atlas_csv>>

GroupBy ==
    /\ pc = "groupby"
    /\ pending' = GroupKeys(df)
    /\ pc' = "loop"
    /\ UNCHANGED <<csv, meta_df, freq, plot_rose, windrose, df, dtype, error,
                   summaries, atlas_df, out_dir, pngs, atlas_csv>>

\* The record of one group (lines 72-93).
Summary(key, g, cast) ==
    LET wspd == Column(g, "wspd")
        wdir == Column(g, "wdir")
        wb == fit_weibull(wspd)
        rose == direction_bins(wdir, cast)
    IN [station |-> key[1],
        period |-> StrPeriod(key[2]),
        n |-> Len(g),
        mean |-> NanMean(wspd),
        p50 |-> NanPercentile(wspd, 50),
        p90 |-> NanPercentile(wspd, 90),
        weibull_k |-> wb[1],
        weibull_c |-> wb[2],
        power_density |-> mean_power_density(wspd),
        dir |-> [c \in {DirCol(k) : k \in DOMAIN rose} |-> rose[c[2]]]]

LoopBody ==
    /\ pc = "loop"
    /\ pending # <<>>
    /\ LET key == Head(pending)
           g == GroupRows(df, key)
       IN /\ \E cast \in NaNCastOutcomes :
                summaries' = Append(summaries, Summary(key, g, cast))
          /\ pngs' = IF plot_rose /\ windrose
                     THEN pngs \cup {<<key[1], StrPeriod(key[2])>>}
                     ELSE pngs
    /\ pending' = Tail(pending)
    /\ UNCHANGED <<csv, meta_df, freq, plot_rose, windrose, df, dtype, pc,
                   error, atlas_df, out_dir, atlas_csv>>

BuildFrame ==
    /\ pc = "loop"
    /\ pending = <<>>
    /\ atlas_df' = DataFrame(summaries)
    /\ pc' = "merge"
    /\ UNCHANGED <<csv, meta_df, freq, plot_rose, windrose, df, dtype, error,
                   pending, summaries, out_dir, pngs, atlas_csv>>

Merge ==
    /\ pc = "merge"
    /\ meta_df.present => ~MergeKeyError(atlas_df, meta_df)
    /\ atlas_df' = IF meta_df.present THEN LeftJoin(atlas_df, meta_df.rows) ELSE atlas_df
    /\ pc' = "write"
    /\ UNCHANGED <<csv, meta_df, freq, plot_rose, windrose, df, dtype, error,
                   pending, summaries, out_dir, pngs, atlas_csv>>

MergeRaise ==
    /\ pc = "merge"
    /\ meta_df.present
    /\ MergeKeyError(atlas_df, meta_df)
    /\ error' = "KeyError"
    /\ pc' = "failed"
    /\ UNCHANGED <<csv, meta_df, freq, plot_rose, windrose, df, dtype,
                   pending, summaries, atlas_df, out_dir, pngs, atlas_csv>>

ToCsv ==
    /\ pc = "write"
    /\ atlas_csv' = [exists |-> TRUE, rows |-> atlas_df]
    /\ pc' = "done"
    /\ UNCHANGED <<csv, meta_df, freq, plot_rose, windrose, df, dtype, error,
                   pending, summaries, atlas_df, out_dir, pngs>>

Next ==
    \/ ReadCsv
    \/ BuildAtlasCall
    \/ Mkdir
    \/ AssignPeriod
    \/ AssignPeriodRaise
    \/ GroupBy
    \/ LoopBody
    \/ BuildFrame
    \/ Merge
    \/ MergeRaise
    \/ ToCsv

----------------------------------------------------------------------------
(* Inputs *)

Stations == {1, 2}
Dates == {Ts(2023, 2), Ts(2023, 10), Ts(2024, 2)}

Environments == {<<FALSE, TRUE>>, <<TRUE, TRUE>>, <<TRUE, FALSE>>}

MetaTables ==
    {None, MetaNoStationColumn} \cup {MetaTable(q) : q \in SeqsUpTo(Stations, MaxMeta)}

Start(rows, meta, fq, env) ==
    /\ csv = rows
    /\ meta_df = meta
    /\ freq = fq
    /\ plot_rose = env[1]
    /\ windrose = env[2]
    /\ df = <<>>
    /\ dtype = "unread"
    /\ pc = "main"
    /\ error = "none"
    /\ pending = <<>>
    /\ summaries = <<>>
    /\ atlas_df = <<>>
    /\ out_dir = FALSE
    /\ pngs = {}
    /\ atlas_csv = [exists |-> FALSE, rows |-> <<>>]

\* Observation files for the run as a whole: stations, timestamps (valid,
\* missing, unparseable) in any order.
RunObs ==
    {Obs(s, t, F(5), F(900)) : s \in Stations, t \in Dates \cup {NaT, Malformed}}

Init ==
    \E rows \in SeqsUpTo(RunObs, MaxObs), meta \in MetaTables,
       fq \in {"monthly", "annual"}, env \in Environments :
        Start(rows, meta, fq, env)

Spec == Init /\ [][Next]_vars

\* One station's observations with every mix of absent and present speed
\* and direction.
StatsObs ==
    {Obs(1, t, w, d) : t \in {Ts(2023, 2), Ts(2023, 10)},
                       w \in {NaN, F(0), F(5)}, d \in {NaN, F(0), F(3500)}}

InitStats ==
    \E rows \in SeqsUpTo(StatsObs, MaxObs), meta \in {None, MetaNoStationColumn},
       fq \in {"monthly", "annual"} :
        Start(rows, meta, fq, <<FALSE, TRUE>>)

SpecStats == InitStats /\ [][Next]_vars

\* One group of a positive speeds, b zero speeds, c negative speeds and e
\* absent speeds around the fit threshold.
WeibullRows(a, b, c, e) ==
    Repeat(Obs(1, Ts(2023, 2), F(5), F(900)), a)
        \o Repeat(Obs(1, Ts(2023, 2), F(0), F(900)), b)
        \o Repeat(Obs(1, Ts(2023, 2), F(0 - 1), F(900)), c)
        \o Repeat(Obs(1, Ts(2023, 2), NaN, F(900)), e)

InitWeibull ==
    \E a \in 0..(MIN_SAMPLES + MaxPad), b \in 0..MaxPad, c \in 0..MaxPad, e \in 0..MaxPad,
       meta \in {None, MetaNoStationColumn} :
        Start(WeibullRows(a, b, c, e), meta, "monthly", <<FALSE, TRUE>>)

SpecWeibull == InitWeibull /\ [][Next]_vars

\* A group of one direction d, alone or with d + 360 degrees.
BinRows(d) ==
    {<<Obs(1, Ts(2023, 2), F(5), F(d))>>,
     <<Obs(1, Ts(2023, 2), F(5), F(d)), Obs(1, Ts(2023, 2), F(5), F(d + FULL_CIRCLE))>>}

InitBins ==
    \E d \in (0 - FULL_CIRCLE)..MaxDir, meta \in {None, MetaNoStationColumn} :
        \E rows \in BinRows(d) \cup {<<>>} :
            Start(rows, meta, "annual", <<FALSE, TRUE>>)

SpecBins == InitBins /\ [][Next]_vars

----------------------------------------------------------------------------
(* Vocabulary of the properties *)

\* The observations a summary record was computed from.
GroupOf(rec) ==
    SelectSeq(df, LAMBDA r : /\ r.period.kind = "P"
                             /\ r.station = rec.station
                             /\ StrPeriod(r.period) = rec.period)

Records == {summaries[i] : i \in 1..Len(summaries)}

ValidSpeedCount(g) == Cardinality({j \in 1..Len(g) : ~g[j].wspd.nan})
ValidDirCount(g) == Cardinality({j \in 1..Len(g) : ~g[j].wdir.nan})
PositiveSpeedCount(g) == Cardinality({j \in 1..Len(g) : ~g[j].wspd.nan /\ g[j].wspd.v > 0})

BinWidth == FULL_CIRCLE \div BINS

\* Bin i covers [i * 22.5, (i + 1) * 22.5) of the direction wrapped into [0, 360).
InBin(d, i) == i * BinWidth <= d % FULL_CIRCLE /\ d % FULL_CIRCLE < (i + 1) * BinWidth

InBinCount(g, i) == Cardinality({j \in 1..Len(g) : ~g[j].wdir.nan /\ InBin(g[j].wdir.v, i)})

\* The frequency a record holds for bin i, read by the viewer's column name.
Freq(rec, i) == rec.dir[FREQ_COLS[i + 1]]

\* Sum of the 16 frequencies of a record, times the size L of its group.
ScaledFreqSum(rec, L) ==
    SumSeq([i \in 1..BINS |-> (Freq(rec, i - 1).num * L) \div Freq(rec, i - 1).den])

RECURSIVE LexLeq(_, _)
LexLeq(a, b) ==
    IF a = <<>> THEN TRUE
    ELSE IF b = <<>> THEN FALSE
    ELSE IF Head(a) # Head(b) THEN Head(a) < Head(b)
    ELSE LexLeq(Tail(a), Tail(b))

\* Row order of the table: by station, then by the period label as text.
RowLeq(r1, r2) ==
    \/ r1.rec.station < r2.rec.station
    \/ r1.rec.station = r2.rec.station /\ LexLeq(r1.rec.period, r2.rec.period)

UniqueStations(meta) ==
    \A i, j \in 1..Len(meta.rows) : meta.rows[i].station = meta.rows[j].station => i = j

----------------------------------------------------------------------------
(* Properties *)

\* C1: in every summary record, n equals the number of non-NaN wind speeds
\* of its group, the values mean, p50, p90 and power_density are computed
\* from; a group without any valid speed has n = 0.
C1_SampleCountIsValidSpeeds ==
    \A rec \in Records : rec.n = ValidSpeedCount(GroupOf(rec))

\* C2: the 16 directional frequencies of a record sum to 1 when its group has
\* a valid direction and to 0 when it has none, and equal the shares among the
\* valid directions alone: absent directions do not change them.
C2_FrequenciesIgnoreAbsentDirections ==
    \A rec \in Records :
        LET g == GroupOf(rec)
        IN /\ ScaledFreqSum(rec, Len(g)) = IF ValidDirCount(g) > 0 THEN Len(g) ELSE 0
           /\ \A i \in 0..(BINS - 1) :
                Freq(rec, i).num * ValidDirCount(g) = InBinCount(g, i) * Freq(rec, i).den

C4_WeibullUndefinedBelowTwenty ==
    \A rec \in Records :
        LET cnt == PositiveSpeedCount(GroupOf(rec))
        IN /\ cnt < 20 => rec.weibull_k = "nan" /\ rec.weibull_c = "nan"
           /\ cnt >= 20 => rec.weibull_k = "mle" /\ rec.weibull_c = "mle"

\* A group of 20 or more observations of which only 19 count: no fit.
C4_Witness ==
    \E rec \in Records :
        /\ Len(GroupOf(rec)) >= 20
        /\ PositiveSpeedCount(GroupOf(rec)) = 19
        /\ rec.weibull_k = "nan"

\* C5: for an input without observations the atlas table file is never
\* written, with or without station metadata.
C5_EmptyInputWritesNothing ==
    csv = <<>> => ~atlas_csv.exists

\* C6: an observation with a malformed or missing timestamp never aborts
\* the run: the run is not ended by the timestamp handling while the input
\* holds such an observation.
C6_BadTimestampDoesNotAbort ==
    (pc = "failed" /\ error = "AttributeError") =>
        \A i \in 1..Len(csv) : csv[i].datetime.kind = "ts"

\* C7 as stated: the written table has exactly one row per summary record,
\* in order, for any metadata table.
C7_OneRowPerRecord ==
    atlas_csv.exists =>
        /\ Len(atlas_csv.rows) = Len(summaries)
        /\ \A i \in 1..Len(summaries) : atlas_csv.rows[i].rec = summaries[i]

\* C7 as amended: every summary record is in the written table (a station
\* absent from the metadata keeps its row, with null metadata fields), and
\* when no station occurs twice in the metadata the table has exactly one row
\* per summary record.
C7_LeftJoinKeepsEveryRecord ==
    atlas_csv.exists =>
        /\ \A rec \in Records : \E i \in 1..Len(atlas_csv.rows) : atlas_csv.rows[i].rec = rec
        /\ \A i \in 1..Len(atlas_csv.rows) :
             LET row == atlas_csv.rows[i]
                 known == \E j \in 1..Len(meta_df.rows) : meta_df.rows[j].station = row.rec.station
             IN meta_df.present => row.meta.joined /\ (row.meta.null <=> ~known)
        /\ UniqueStations(meta_df) =>
             /\ Len(atlas_csv.rows) = Len(summaries)
             /\ \A i \in 1..Len(summaries) : atlas_csv.rows[i].rec = summaries[i]

\* A written table with one row joined to its metadata and one row whose
\* station the metadata does not know.
C7_Witness ==
    /\ atlas_csv.exists
    /\ UniqueStations(meta_df)
    /\ \E i, j \in 1..Len(atlas_csv.rows) :
         /\ atlas_csv.rows[i].meta.joined /\ atlas_csv.rows[i].meta.null
         /\ atlas_csv.rows[j].meta.joined /\ ~atlas_csv.rows[j].meta.null

\* C8: the rows of the written table are sorted by station and then by
\* period label, and they are the groups of the input whatever its order.
C8_RowsSortedByStationThenPeriod ==
    atlas_csv.exists =>
        /\ \A i, j \in 1..Len(atlas_csv.rows) :
             i < j => RowLeq(atlas_csv.rows[i], atlas_csv.rows[j])
        /\ {<<atlas_csv.rows[i].rec.station, atlas_csv.rows[i].rec.period>> :
                i \in 1..Len(atlas_csv.rows)}
             = {<<csv[i].station, StrPeriod(ToPeriod(csv[i].datetime, freq))>> :
                i \in {j \in 1..Len(csv) : csv[j].datetime.kind = "ts"}}

\* A written, joined table of two rows whose observations came in the
\* opposite order.
C8_Witness ==
    /\ atlas_csv.exists
    /\ meta_df.present
    /\ Len(atlas_csv.rows) = 2
    /\ Len(csv) = 2
    /\ atlas_csv.rows[1].rec.station = csv[2].station
    /\ atlas_csv.rows[1].rec.period = StrPeriod(ToPeriod(csv[2].datetime, freq))
    /\ atlas_csv.rows[2].rec.station = csv[1].station
    /\ atlas_csv.rows[2].rec.period = StrPeriod(ToPeriod(csv[1].datetime, freq))
    /\ ~RowLeq(atlas_csv.rows[2], atlas_csv.rows[1])

\* C9: a run that fails leaves no output of the run on disk, neither the
\* table nor a rose plot.
C9_FailedRunLeavesNothing ==
    pc = "failed" => ~atlas_csv.exists /\ pngs = {}

\* C10: every record has exactly 16 distinct directional columns, named by
\* the truncated lower bound of their bin, they are the viewer's FREQ_COLS,
\* and the column of bin i holds the frequency of bin i.
C10_DirectionColumnsMatchViewer ==
    \A rec \in Records :
        LET g == GroupOf(rec)
        IN /\ DOMAIN rec.dir = {FREQ_COLS[i] : i \in 1..Len(FREQ_COLS)}
           /\ Cardinality(DOMAIN rec.dir) = 16
           /\ \A i \in 0..15 : FREQ_COLS[i + 1] = DirCol((i * BinWidth) \div 10)
           /\ \A j \in 1..Len(g) : ~g[j].wdir.nan =>
                \E i \in 0..15 : InBin(g[j].wdir.v, i) /\ Freq(rec, i).num > 0
           /\ ValidDirCount(g) = Len(g) =>
                \A i \in 0..15 : Freq(rec, i).num * Len(g) = InBinCount(g, i) * Freq(rec, i).den

\* A record of a group with one direction in bin 0 and one in bin 15.
C10_Witness ==
    \E rec \in Records :
        /\ InBinCount(GroupOf(rec), 0) = 1
        /\ InBinCount(GroupOf(rec), 15) = 1
        /\ rec.dir[DirCol(0)] = Stat(1, 2)
        /\ rec.dir[DirCol(337)] = Stat(1, 2)

====
